---- MODULE Spec2Model ----
(***************************************************************************)
(* Model of the WLG cutting-stock tool.                                    *)
(*                                                                         *)
(*   optimizador_logic.py  optimizar_cortes_para_un_largo_rollo            *)
(*   app.py                obtener_fuente_adecuada_individual,             *)
(*                         optimizar_fuentes_para_cortes_agrupados         *)
(*                                                                         *)
(* Lengths are whole metres and powers are hundredths of a watt, so that   *)
(* the products length * watts-per-metre * safety-factor of the source are *)
(* exact integers.  A Python dict is an insertion-ordered sequence of      *)
(* <<key, value>> pairs with distinct keys.  An optional argument is the   *)
(* empty tuple (None) or a one-element tuple.                              *)
(***************************************************************************)
EXTENDS Integers, Sequences, FiniteSets, TLC

\* ---------------------------------------------------------------- bounds
MaxCantidad == 2        \* largest quantity of one request
MaxDistintos == 2       \* most distinct lengths in a cutting request map
MaxCap == 2             \* largest max_items_per_pattern tried

\* Roll lengths offered by the application (two of the three options).
ROLLOS_DISPONIBLES == {5, 10}
\* Requested lengths: below, equal to and above the roll lengths.
LargosCorte == {2, 5, 10, 12}

MaxDistintosFuentes == 3   \* most distinct lengths in a power request map

\* Strip lengths (m), watts per metre and safety margins (percent) tried;
\* ratings of 60, 100, 120 and 200 W in hundredths of a watt (cW).
LargosTira == {7, 8, 12, 18, 24}
WattsPorMetro == {4}
FactoresSeguridad == {25, 50}
ListasDeFuentes ==
  {<<>>, <<6000>>, <<10000>>, <<10000, 6000>>, <<6000, 10000>>,
   <<12000, 20000>>}

VARIABLES
  pc,                           \* position of the running invocation
  largo_rollo_seleccionado,     \* argument: roll length
  solicitudes_cortes,           \* argument: request dict
  max_items_per_pattern,        \* argument: <<>> (None) or <<k>>
  cortes_para_optimizar,        \* dict of the requests that fit in a roll
  cortes_grandes_externos,      \* list of the requests longer than the roll
  grandes,                      \* large-piece totals and summary record
  patrones_unicos,              \* list of canonical patterns
  solver,                       \* [status, x]: what problema.solve() left
  retorno,                      \* <<>> or <<the returned 5-tuple as a record>>
  anterior,                     \* <<>> or <<summary of the previous invocation>>
  watts_por_metro_tira,         \* argument: watts per metre
  fuentes_disponibles_watts,    \* argument: list of ratings (cW)
  factor_seguridad,             \* argument: safety margin in percent
  modo,                         \* "agrupado" or "individual"
  piezas_consumo_ajustado,      \* list of physical pieces
  indice,                       \* pieces (or dict items) already handled
  cantidad_corte,               \* loop variable left by the expansion loop
  fuentes_en_uso,               \* opened supply instances
  total_fuentes_requeridas_dict,   \* rating -> opened instances
  detalles_fuentes_asignadas_list, \* per-piece warning entries
  retorno_fuentes,              \* <<>> or <<what the function returned>>
  solicitudes_cortes_ingresadas,   \* st.session_state: the request dict
  cut_optimization_results,        \* st.session_state: [en_sesion, valor]
  source_calculation_results,      \* st.session_state: [en_sesion, valor]
  optimizado_con,               \* request dict the stored plan was computed from
  calculado_con,                \* request dict the stored sources were computed from
  mensaje                       \* what the last UI action showed or raised

varsCortes == <<pc, largo_rollo_seleccionado, solicitudes_cortes,
                max_items_per_pattern, cortes_para_optimizar,
                cortes_grandes_externos, grandes, patrones_unicos, solver,
                retorno, anterior>>

varsFuentes == <<watts_por_metro_tira, fuentes_disponibles_watts,
                 factor_seguridad, modo, piezas_consumo_ajustado, indice,
                 cantidad_corte, fuentes_en_uso,
                 total_fuentes_requeridas_dict,
                 detalles_fuentes_asignadas_list, retorno_fuentes>>

varsUI == <<solicitudes_cortes_ingresadas, cut_optimization_results,
            source_calculation_results, optimizado_con, calculado_con,
            mensaje>>

vars == <<varsCortes, varsFuentes, varsUI>>

\* ------------------------------------------------------- Python built-ins
RECURSIVE SumSeq(_)
SumSeq(s) == IF s = <<>> THEN 0 ELSE Head(s) + SumSeq(Tail(s))

\* list.count(v) / tuple.count(v)
RECURSIVE Count(_, _)
Count(s, v) ==
  IF s = <<>> THEN 0
  ELSE (IF Head(s) = v THEN 1 ELSE 0) + Count(Tail(s), v)

\* math.ceil(a / b) for a >= 0, b > 0
Ceil(a, b) == (a + b - 1) \div b

\* insertion of v into an ascending list, after the elements equal to it
RECURSIVE InsertAsc(_, _)
InsertAsc(s, v) ==
  IF s = <<>> THEN <<v>>
  ELSE IF v < Head(s) THEN <<v>> \o s
       ELSE <<Head(s)>> \o InsertAsc(Tail(s), v)

\* sorted(s)
RECURSIVE Sorted(_)
Sorted(s) ==
  IF s = <<>> THEN <<>>
  ELSE InsertAsc(Sorted(SubSeq(s, 1, Len(s) - 1)), s[Len(s)])

Reverse(s) == [i \in 1..Len(s) |-> s[Len(s) + 1 - i]]

\* sorted(s, reverse=True) on a list of distinct numbers
SortedReverse(s) == Reverse(Sorted(s))

\* list(collections.OrderedDict.fromkeys(s)): first occurrences, in order
RECURSIVE FromKeys(_)
FromKeys(s) ==
  IF s = <<>> THEN <<>>
  ELSE LET r == FromKeys(SubSeq(s, 1, Len(s) - 1)) IN
       IF \E i \in 1..Len(r) : r[i] = s[Len(s)] THEN r
       ELSE Append(r, s[Len(s)])

Keys(d) == [i \in 1..Len(d) |-> d[i][1]]

\* sum(l * c for l, c in d.items())
RECURSIVE SumProd(_)
SumProd(d) ==
  IF d = <<>> THEN 0 ELSE Head(d)[1] * Head(d)[2] + SumProd(Tail(d))

\* sum of the quantities of a dict
RECURSIVE SumCant(_)
SumCant(d) == IF d = <<>> THEN 0 ELSE Head(d)[2] + SumCant(Tail(d))

\* d.get(k, 0)
Get(d, k) ==
  IF \E i \in 1..Len(d) : d[i][1] = k
  THEN d[CHOOSE i \in 1..Len(d) : d[i][1] = k][2]
  ELSE 0

\* ----------------------------------------------------------------- inputs
\* request dicts: at most n distinct lengths of L, quantities 1..MaxCantidad
DictsDe(L, n) ==
  UNION { { d \in [1..k -> L \X (1..MaxCantidad)] :
              \A i, j \in 1..k : i # j => d[i][1] # d[j][1] } : k \in 0..n }

\* max_items_per_pattern: None, or 0..MaxCap
Caps == {<<>>} \cup { <<k>> : k \in 0..MaxCap }

\* ------------------------------------------- optimizar_cortes_..., part 1
\* mutant: every request is sent to optimisation, whatever its length
RECURSIVE ParaOptimizar_SinFiltro(_, _)
ParaOptimizar_SinFiltro(sol, rollo) ==
  IF sol = <<>> THEN <<>>
  ELSE LET d == ParaOptimizar_SinFiltro(SubSeq(sol, 1, Len(sol) - 1), rollo)
           largo == sol[Len(sol)][1]
           cantidad == sol[Len(sol)][2]
       IN IF \E i \in 1..Len(d) : d[i][1] = largo
          THEN [i \in 1..Len(d) |->
                  IF d[i][1] = largo THEN <<largo, d[i][2] + cantidad>>
                  ELSE d[i]]
          ELSE Append(d, <<largo, Get(d, largo) + cantidad>>)

\* the loop over solicitudes_cortes.items(): requests that fit in the roll
RECURSIVE ParaOptimizar(_, _)
ParaOptimizar(sol, rollo) ==
  IF sol = <<>> THEN <<>>
  ELSE LET d == ParaOptimizar(SubSeq(sol, 1, Len(sol) - 1), rollo)
           largo == sol[Len(sol)][1]
           cantidad == sol[Len(sol)][2]
       IN IF largo > rollo THEN d
          ELSE IF \E i \in 1..Len(d) : d[i][1] = largo
               THEN [i \in 1..Len(d) |->
                       IF d[i][1] = largo THEN <<largo, d[i][2] + cantidad>>
                       ELSE d[i]]
               ELSE Append(d, <<largo, Get(d, largo) + cantidad>>)

\* mutant: a length equal to the roll length is sent to the large pieces
RECURSIVE GrandesExternos_Borde(_, _)
GrandesExternos_Borde(sol, rollo) ==
  IF sol = <<>> THEN <<>>
  ELSE LET g == GrandesExternos_Borde(SubSeq(sol, 1, Len(sol) - 1), rollo)
           largo == sol[Len(sol)][1]
           cantidad == sol[Len(sol)][2]
       IN IF largo >= rollo
          THEN Append(g, [largo |-> largo, cantidad |-> cantidad])
          ELSE g

\* the same loop: requests longer than the roll, as descriptors
RECURSIVE GrandesExternos(_, _)
GrandesExternos(sol, rollo) ==
  IF sol = <<>> THEN <<>>
  ELSE LET g == GrandesExternos(SubSeq(sol, 1, Len(sol) - 1), rollo)
           largo == sol[Len(sol)][1]
           cantidad == sol[Len(sol)][2]
       IN IF largo > rollo
          THEN Append(g, [largo |-> largo, cantidad |-> cantidad])
          ELSE g

\* mutant: the lengths are summed without their quantities
RECURSIVE SumMetros_SinCantidad(_)
SumMetros_SinCantidad(g) ==
  IF g = <<>> THEN 0 ELSE Head(g).largo + SumMetros_SinCantidad(Tail(g))

RECURSIVE SumMetros(_)
SumMetros(g) ==
  IF g = <<>> THEN 0
  ELSE Head(g).largo * Head(g).cantidad + SumMetros(Tail(g))

RECURSIVE SumPiezas(_)
SumPiezas(g) == IF g = <<>> THEN 0 ELSE Head(g).cantidad + SumPiezas(Tail(g))

\* mutant: integer division in place of the ceiling
RollosGrandes_Piso(total_metros, rollo) == total_metros \div rollo

\* rolls of the large-piece group: ceiling of the summed demand
RollosGrandes(total_metros, rollo) == Ceil(total_metros, rollo)

\* totals and summary record of the large pieces
ProcesarGrandes(g, rollo) ==
  IF g = <<>>
  THEN [total_rollos |-> 0, total_desperdicio |-> 0, detalles |-> <<>>]
  ELSE LET total_metros_requeridos_grandes == SumMetros(g)
           num_rollos_para_total_grandes ==
             RollosGrandes(total_metros_requeridos_grandes, rollo)
           material_consumido_para_grandes ==
             num_rollos_para_total_grandes * rollo
           desperdicio_para_total_grandes ==
             material_consumido_para_grandes - total_metros_requeridos_grandes
       IN [total_rollos |-> num_rollos_para_total_grandes,
           total_desperdicio |-> desperdicio_para_total_grandes,
           detalles |-> <<
             [Rollo_ID |-> <<"RESUMEN_PIEZAS_GRANDES">>,
              Tipo_Rollo |-> rollo,
              Cortes_en_rollo |->
                <<"TOTAL", total_metros_requeridos_grandes, SumPiezas(g)>>,
              Desperdicio_en_rollo |-> desperdicio_para_total_grandes,
              Metros_Consumidos_para_esta_pieza |->
                total_metros_requeridos_grandes,
              Rollos_Fisicos_Asignados |-> num_rollos_para_total_grandes]>>]

EstadoSoloGrandes == "Optimal (Solo Cortes Mayores al Rollo Seleccionado)"
EstadoSinPatrones == "No hay patrones validos generados para cortes pequenos"

\* the solver before problema.solve(); llamadas counts the calls of solve()
SolverInicial == [status |-> "Not Solved", x |-> <<>>, llamadas |-> 0]

\* the 5-tuple the function returns
Retorno(estado, rollos, desperdicio, detalles, cortes_grandes) ==
  [estado |-> estado, num_rollos_totales |-> rollos,
   desperdicio_total |-> desperdicio, detalles |-> detalles,
   cortes_grandes |-> cortes_grandes]

\* a key of st.session_state: absent, or present with None (<<>>) or a value
Ausente == [en_sesion |-> FALSE, valor |-> <<>>]
Nulo == [en_sesion |-> TRUE, valor |-> <<>>]
Guardado(v) == [en_sesion |-> TRUE, valor |-> <<v>>]

\* the page has stored nothing
SesionEnReposo ==
  /\ solicitudes_cortes_ingresadas = <<>>
  /\ cut_optimization_results = Ausente
  /\ source_calculation_results = Ausente
  /\ optimizado_con = <<>>
  /\ calculado_con = <<>>
  /\ mensaje = ""

\* the power-supply functions are not running
FuentesEnReposo ==
  /\ watts_por_metro_tira = 0
  /\ fuentes_disponibles_watts = <<>>
  /\ factor_seguridad = 0
  /\ modo = "ninguno"
  /\ piezas_consumo_ajustado = <<>>
  /\ indice = 0
  /\ cantidad_corte = 0
  /\ fuentes_en_uso = <<>>
  /\ total_fuentes_requeridas_dict = <<>>
  /\ detalles_fuentes_asignadas_list = <<>>
  /\ retorno_fuentes = <<>>

\* lines 23-62: split, large-piece arithmetic, early return
Preprocesar ==
  /\ pc = "inicio"
  /\ LET opt == ParaOptimizar(solicitudes_cortes, largo_rollo_seleccionado)
         ext == GrandesExternos(solicitudes_cortes, largo_rollo_seleccionado)
         g == ProcesarGrandes(ext, largo_rollo_seleccionado)
     IN /\ cortes_para_optimizar' = opt
        /\ cortes_grandes_externos' = ext
        /\ grandes' = g
        /\ IF opt = <<>>
           THEN /\ retorno' = <<Retorno(EstadoSoloGrandes, g.total_rollos,
                                        g.total_desperdicio, g.detalles, ext)>>
                /\ pc' = "fin"
           ELSE /\ retorno' = retorno
                /\ pc' = "generar"
  /\ UNCHANGED <<largo_rollo_seleccionado, solicitudes_cortes,
                 max_items_per_pattern, patrones_unicos, solver, anterior>>
  /\ UNCHANGED varsFuentes
  /\ UNCHANGED varsUI

\* ------------------------------------------- optimizar_cortes_..., part 2
\* mutant: a pattern that reaches the cap is dropped instead of kept
RECURSIVE generar_todos_los_patrones_SinTope(_, _, _, _)
generar_todos_los_patrones_SinTope(largos_disponibles, largo_maximo_patron, current_pattern, max_items) ==
  LET suma_actual == SumSeq(current_pattern)
      propio == IF suma_actual <= largo_maximo_patron /\ current_pattern # <<>>
                THEN <<current_pattern>> ELSE <<>>
      n == Len(largos_disponibles)
      hijos[i \in 0..n] ==
        IF i = 0 THEN <<>>
        ELSE hijos[i - 1] \o
             (IF suma_actual + largos_disponibles[i] <= largo_maximo_patron
              THEN generar_todos_los_patrones_SinTope(
                     SubSeq(largos_disponibles, i, n), largo_maximo_patron,
                     Append(current_pattern, largos_disponibles[i]), max_items)
              ELSE <<>>)
  IN IF max_items # <<>> /\ Len(current_pattern) >= max_items[1]
     THEN <<>>
     ELSE propio \o hijos[n]

\* mutant: the recursion goes on from the next length, so no length repeats
RECURSIVE generar_todos_los_patrones_DesdeSiguiente(_, _, _, _)
generar_todos_los_patrones_DesdeSiguiente(largos_disponibles, largo_maximo_patron, current_pattern, max_items) ==
  LET suma_actual == SumSeq(current_pattern)
      propio == IF suma_actual <= largo_maximo_patron /\ current_pattern # <<>>
                THEN <<current_pattern>> ELSE <<>>
      n == Len(largos_disponibles)
      hijos[i \in 0..n] ==
        IF i = 0 THEN <<>>
        ELSE hijos[i - 1] \o
             (IF suma_actual + largos_disponibles[i] <= largo_maximo_patron
              THEN generar_todos_los_patrones_DesdeSiguiente(
                     SubSeq(largos_disponibles, i + 1, n), largo_maximo_patron,
                     Append(current_pattern, largos_disponibles[i]), max_items)
              ELSE <<>>)
  IN IF max_items # <<>> /\ Len(current_pattern) >= max_items[1]
     THEN propio
     ELSE propio \o hijos[n]

\* the nested depth-first generator; patterns come out in visiting order
RECURSIVE generar_todos_los_patrones(_, _, _, _)
generar_todos_los_patrones(largos_disponibles, largo_maximo_patron, current_pattern, max_items) ==
  LET suma_actual == SumSeq(current_pattern)
      propio == IF suma_actual <= largo_maximo_patron /\ current_pattern # <<>>
                THEN <<current_pattern>> ELSE <<>>
      n == Len(largos_disponibles)
      hijos[i \in 0..n] ==
        IF i = 0 THEN <<>>
        ELSE hijos[i - 1] \o
             (IF suma_actual + largos_disponibles[i] <= largo_maximo_patron
              THEN generar_todos_los_patrones(
                     SubSeq(largos_disponibles, i, n), largo_maximo_patron,
                     Append(current_pattern, largos_disponibles[i]), max_items)
              ELSE <<>>)
  IN IF max_items # <<>> /\ Len(current_pattern) >= max_items[1]
     THEN propio
     ELSE propio \o hijos[n]

\* lines 66-97: descending lengths, generation, canonical tuples, dedup
PatronesUnicos(opt, rollo, cap) ==
  LET largos_unicos_a_optimizar == SortedReverse(Keys(opt))
      generados == generar_todos_los_patrones(largos_unicos_a_optimizar,
                                              rollo, <<>>, cap)
      todos_los_patrones == [i \in 1..Len(generados) |-> Sorted(generados[i])]
  IN FromKeys(todos_los_patrones)

\* lines 66-104
GenerarPatrones ==
  /\ pc = "generar"
  /\ LET pats == PatronesUnicos(cortes_para_optimizar,
                                largo_rollo_seleccionado,
                                max_items_per_pattern)
     IN /\ patrones_unicos' = pats
        /\ IF pats = <<>>
           THEN /\ retorno' = <<Retorno(EstadoSinPatrones,
                                        grandes.total_rollos,
                                        grandes.total_desperdicio,
                                        grandes.detalles,
                                        cortes_grandes_externos)>>
                /\ pc' = "fin"
           ELSE /\ retorno' = retorno
                /\ pc' = "resolver"
  /\ UNCHANGED <<largo_rollo_seleccionado, solicitudes_cortes,
                 max_items_per_pattern, cortes_para_optimizar,
                 cortes_grandes_externos, grandes, solver, anterior>>
  /\ UNCHANGED varsFuentes
  /\ UNCHANGED varsUI

\* ------------------------------------------------ the integer program
\* metres of the longest pattern
MaxLargoPatron(pats) ==
  LET sumas == { SumSeq(pats[i]) : i \in 1..Len(pats) }
  IN CHOOSE v \in sumas : \A w \in sumas : v >= w

\* produced pieces of one length: sum of x[i] * patrones[i].count(largo)
Producido(pats, x, largo) ==
  LET acc[i \in 0..Len(pats)] ==
        IF i = 0 THEN 0 ELSE acc[i - 1] + x[i] * Count(pats[i], largo)
  IN acc[Len(pats)]

\* the constraints "Cumplir_Corte_<largo>": produced >= requested
Cumple(pats, x, opt) ==
  \A j \in 1..Len(opt) : Producido(pats, x, opt[j][1]) >= opt[j][2]

\* requested metres still uncovered
RECURSIVE Pendiente(_)
Pendiente(dem) ==
  IF dem = <<>> THEN 0
  ELSE Head(dem)[1] * Head(dem)[2] + Pendiente(Tail(dem))

\* the demand left after k rolls of one pattern
Descontar(dem, patron, k) ==
  [j \in 1..Len(dem) |->
     LET resto == dem[j][2] - k * Count(patron, dem[j][1])
     IN <<dem[j][1], IF resto > 0 THEN resto ELSE 0>>]

\* usage vectors over the first i patterns with objective value n that
\* produce at least the demand dem; no roll yields more than capacidad
\* metres, so a demand of more than n * capacidad metres has none
RECURSIVE UsosQueCubren(_, _, _, _, _)
UsosQueCubren(pats, i, n, dem, capacidad) ==
  IF Pendiente(dem) > n * capacidad THEN {}
  ELSE IF i = 0 THEN (IF n = 0 THEN {<<>>} ELSE {})
  ELSE UNION { { Append(u, k) :
                   u \in UsosQueCubren(pats, i - 1, n - k,
                                       Descontar(dem, pats[i], k), capacidad) }
               : k \in 0..n }

\* feasible usage vectors of objective value n: every variable a
\* non-negative integer, every constraint met (the search only proposes
\* vectors that leave no demand uncovered; Cumple states the constraints)
Factibles(pats, opt, n) ==
  { x \in UsosQueCubren(pats, Len(pats), n, opt,
                        MaxLargoPatron(pats)) : Cumple(pats, x, opt) }

\* least objective value from n up to tope with a feasible usage vector, or
\* -1 when there is none
RECURSIVE PrimerFactible(_, _, _, _)
PrimerFactible(pats, opt, n, tope) ==
  IF n > tope THEN -1
  ELSE IF Factibles(pats, opt, n) # {} THEN n
       ELSE PrimerFactible(pats, opt, n + 1, tope)

\* mutant: a call after the first keeps the bound left by the one before and
\* settles for one roll per requested piece
ValorOptimo_ConArrastre(pats, opt) ==
  PrimerFactible(pats, opt, Len(anterior) * SumCant(opt), SumCant(opt))

\* One roll per requested piece is enough whenever the program is feasible,
\* so the optimum is searched up to the number of requested pieces.
ValorOptimo(pats, opt) == PrimerFactible(pats, opt, 0, SumCant(opt))

\* lines 107-126: problema.solve() with an exact solver: status Optimal with
\* any optimal usage vector, or Infeasible
Resolver ==
  /\ pc = "resolver"
  /\ LET v == ValorOptimo(patrones_unicos, cortes_para_optimizar) IN
       IF v < 0
       THEN solver' = [status |-> "Infeasible", x |-> <<>>,
                       llamadas |-> solver.llamadas + 1]
       ELSE \E x \in Factibles(patrones_unicos, cortes_para_optimizar, v) :
              solver' = [status |-> "Optimal", x |-> x,
                         llamadas |-> solver.llamadas + 1]
  /\ pc' = "procesar"
  /\ UNCHANGED <<largo_rollo_seleccionado, solicitudes_cortes,
                 max_items_per_pattern, cortes_para_optimizar,
                 cortes_grandes_externos, grandes, patrones_unicos, retorno,
                 anterior>>
  /\ UNCHANGED varsFuentes
  /\ UNCHANGED varsUI

\* the values of pulp's LpStatus other than Optimal
EstadosSinOptimo == {"Not Solved", "Infeasible", "Unbounded", "Undefined"}

\* values the usage variables may be left with when no optimum was found
ValoresSinOptimo(pats) ==
  { [i \in 1..Len(pats) |-> 0], [i \in 1..Len(pats) |-> 1] }

\* lines 123-126: problema.solve() comes back without an optimum (the solver
\* is an external program: it may stop early or fail); the status is any
\* other value of LpStatus and the variables hold whatever it left in them
ResolverSinOptimo ==
  /\ pc = "resolver"
  /\ \E st \in EstadosSinOptimo :
       \E x \in ValoresSinOptimo(patrones_unicos) :
         solver' = [status |-> st, x |-> x, llamadas |-> solver.llamadas + 1]
  /\ pc' = "procesar"
  /\ UNCHANGED <<largo_rollo_seleccionado, solicitudes_cortes,
                 max_items_per_pattern, cortes_para_optimizar,
                 cortes_grandes_externos, grandes, patrones_unicos, retorno,
                 anterior>>
  /\ UNCHANGED varsFuentes
  /\ UNCHANGED varsUI

\* ------------------------------------------- optimizar_cortes_..., part 3
\* mutant: the roll counter is not advanced
RegistroPatron_IdFijo(patron, rollo, id) ==
  [Rollo_ID |-> <<"Opt-Rollo", 1>>,
   Tipo_Rollo |-> rollo,
   Cortes_en_rollo |-> patron,
   Desperdicio_en_rollo |-> rollo - SumSeq(patron),
   Metros_Consumidos_en_este_rollo |-> SumSeq(patron)]

\* one emitted record of a pattern
RegistroPatron(patron, rollo, id) ==
  [Rollo_ID |-> <<"Opt-Rollo", id>>,
   Tipo_Rollo |-> rollo,
   Cortes_en_rollo |-> patron,
   Desperdicio_en_rollo |-> rollo - SumSeq(patron),
   Metros_Consumidos_en_este_rollo |-> SumSeq(patron)]

\* mutant: the inner loop runs one time too few for every used pattern
RECURSIVE Materializar_UnoMenos(_, _, _, _)
Materializar_UnoMenos(pats, x, rollo, i) ==
  IF i = 0 THEN <<>>
  ELSE LET previos == Materializar_UnoMenos(pats, x, rollo, i - 1)
           num_usos_patron == x[i]
       IN previos \o
          [k \in 1..(num_usos_patron - 1) |->
             RegistroPatron(pats[i], rollo, Len(previos) + k)]

\* lines 138-154: num_usos_patron records per used pattern, numbered in order
RECURSIVE Materializar(_, _, _, _)
Materializar(pats, x, rollo, i) ==
  IF i = 0 THEN <<>>
  ELSE LET previos == Materializar(pats, x, rollo, i - 1)
           num_usos_patron == x[i]
       IN previos \o
          [k \in 1..num_usos_patron |->
             RegistroPatron(pats[i], rollo, Len(previos) + k)]

\* mutant: the pieces are counted instead of their metres
DesperdicioOptimizador_PorPiezas(rollos, rollo, opt) ==
  (rollos * rollo) - SumCant(opt)

\* line 136: waste of the optimised part
DesperdicioOptimizador(rollos, rollo, opt) == (rollos * rollo) - SumProd(opt)

\* mutant: the large-piece waste is left out of the total
DesperdicioTotal_SinGrandes(desperdicio_optimizador, desperdicio_grandes) ==
  desperdicio_optimizador

\* line 158: consolidated waste
DesperdicioTotal(desperdicio_optimizador, desperdicio_grandes) ==
  desperdicio_optimizador + desperdicio_grandes

\* mutant: the objective value is taken whatever the status
RollosOptimizador_SinEstado(estado_solucion, x) == SumSeq(x)

\* lines 129-133: the optimizer roll count is the objective value on Optimal
\* and stays 0 otherwise
RollosOptimizador(estado_solucion, x) ==
  IF estado_solucion = "Optimal" THEN SumSeq(x) ELSE 0

\* mutant: the pattern records are emitted whatever the status
DetallesOptimizador_SinEstado(estado_solucion, pats, x, rollo) ==
  Materializar(pats, x, rollo, Len(pats))

\* lines 130, 138-154: pattern records are emitted on Optimal only
DetallesOptimizador(estado_solucion, pats, x, rollo) ==
  IF estado_solucion = "Optimal"
  THEN Materializar(pats, x, rollo, Len(pats))
  ELSE <<>>

\* lines 126-162: results of the solve, consolidation, return
Procesar ==
  /\ pc = "procesar"
  /\ LET estado_solucion == solver.status
         optimo == estado_solucion = "Optimal"
         num_rollos_optimizador ==
           RollosOptimizador(estado_solucion, solver.x)
         desperdicio_optimizador ==
           IF optimo
           THEN DesperdicioOptimizador(num_rollos_optimizador,
                                       largo_rollo_seleccionado,
                                       cortes_para_optimizar)
           ELSE 0
         detalles_cortes_optimizador_formateados ==
           DetallesOptimizador(estado_solucion, patrones_unicos, solver.x,
                               largo_rollo_seleccionado)
     IN retorno' = <<Retorno(
          estado_solucion,
          num_rollos_optimizador + grandes.total_rollos,
          DesperdicioTotal(desperdicio_optimizador, grandes.total_desperdicio),
          grandes.detalles \o detalles_cortes_optimizador_formateados,
          cortes_grandes_externos)>>
  /\ pc' = "fin"
  /\ UNCHANGED <<largo_rollo_seleccionado, solicitudes_cortes,
                 max_items_per_pattern, cortes_para_optimizar,
                 cortes_grandes_externos, grandes, patrones_unicos, solver,
                 anterior>>
  /\ UNCHANGED varsFuentes
  /\ UNCHANGED varsUI

\* summary of a finished invocation kept by the caller
Resumen ==
  [cap |-> max_items_per_pattern,
   estado |-> retorno[1].estado,
   num_rollos_totales |-> retorno[1].num_rollos_totales,
   desperdicio_total |-> retorno[1].desperdicio_total,
   patrones |-> patrones_unicos]

\* the caller invokes the function again on the same roll length and request
\* dict with a cap of its choice; every local starts afresh
Invocar ==
  /\ pc = "fin"
  /\ \E cap \in Caps : max_items_per_pattern' = cap
  /\ anterior' = <<Resumen>>
  /\ pc' = "inicio"
  /\ cortes_para_optimizar' = <<>>
  /\ cortes_grandes_externos' = <<>>
  /\ grandes' = [total_rollos |-> 0, total_desperdicio |-> 0,
                 detalles |-> <<>>]
  /\ patrones_unicos' = <<>>
  /\ solver' = SolverInicial
  /\ retorno' = <<>>
  /\ UNCHANGED <<largo_rollo_seleccionado, solicitudes_cortes>>
  /\ UNCHANGED varsFuentes
  /\ UNCHANGED varsUI

InitCortes ==
  /\ pc = "inicio"
  /\ largo_rollo_seleccionado \in ROLLOS_DISPONIBLES
  /\ solicitudes_cortes \in DictsDe(LargosCorte, MaxDistintos)
  /\ max_items_per_pattern \in Caps
  /\ cortes_para_optimizar = <<>>
  /\ cortes_grandes_externos = <<>>
  /\ grandes = [total_rollos |-> 0, total_desperdicio |-> 0, detalles |-> <<>>]
  /\ patrones_unicos = <<>>
  /\ solver = SolverInicial
  /\ retorno = <<>>
  /\ anterior = <<>>
  /\ FuentesEnReposo
  /\ SesionEnReposo

NextCortes ==
  \/ Preprocesar
  \/ GenerarPatrones
  \/ Resolver
  \/ Procesar
  \/ Invocar

SpecCortes == InitCortes /\ [][NextCortes]_vars

\* one invocation, on any input, with a solver that may also come back
\* without an optimum
NextEstados ==
  \/ Preprocesar
  \/ GenerarPatrones
  \/ Resolver
  \/ ResolverSinOptimo
  \/ Procesar

SpecEstados == InitCortes /\ [][NextEstados]_vars

\* ===================================================== claims, cutting
Terminado == retorno # <<>>
ret == retorno[1]

EsRegistroPatron(r) == r.Rollo_ID[1] = "Opt-Rollo"

\* occurrences of a length over the emitted pattern records
OcurrenciasEnRegistros(largo) ==
  LET d == ret.detalles
      acc[i \in 0..Len(d)] ==
        IF i = 0 THEN 0
        ELSE acc[i - 1] + (IF EsRegistroPatron(d[i])
                           THEN Count(d[i].Cortes_en_rollo, largo) ELSE 0)
  IN acc[Len(d)]

\* quantity recorded for a length among the large-piece descriptors
CantidadGrande(largo) ==
  LET g == ret.cortes_grandes
      acc[i \in 0..Len(g)] ==
        IF i = 0 THEN 0
        ELSE acc[i - 1] + (IF g[i].largo = largo THEN g[i].cantidad ELSE 0)
  IN acc[Len(g)]

EstadoOptimo == ret.estado \in {"Optimal", EstadoSoloGrandes}

LargosPedidos == { solicitudes_cortes[i][1] : i \in 1..Len(solicitudes_cortes) }

\* C1 as stated: with an optimal status, pattern occurrences plus the
\* large-piece quantity of every requested length equal the requested
\* quantity exactly.
C1_CoberturaExacta ==
  (Terminado /\ EstadoOptimo) =>
    \A largo \in LargosPedidos :
      OcurrenciasEnRegistros(largo) + CantidadGrande(largo)
        = Get(solicitudes_cortes, largo)

\* C1 amended: with an optimal status no requested length falls short: a
\* length longer than the roll is recorded with exactly its requested
\* quantity and appears in no pattern record, and a length that fits is cut
\* at least as often as requested (the solver may overproduce).
C1_SinFaltante ==
  (Terminado /\ EstadoOptimo) =>
    \A largo \in LargosPedidos :
      IF largo > largo_rollo_seleccionado
      THEN /\ CantidadGrande(largo) = Get(solicitudes_cortes, largo)
           /\ OcurrenciasEnRegistros(largo) = 0
      ELSE /\ CantidadGrande(largo) = 0
           /\ OcurrenciasEnRegistros(largo) >= Get(solicitudes_cortes, largo)

\* an optimal plan with a large and a small request, one of them overproduced
C1_Testigo ==
  /\ Terminado
  /\ ret.estado = "Optimal"
  /\ ret.cortes_grandes # <<>>
  /\ \E largo \in LargosPedidos :
       OcurrenciasEnRegistros(largo) > Get(solicitudes_cortes, largo)

\* consumed length of a record, under the key the record carries
Consumido(r) ==
  IF EsRegistroPatron(r) THEN r.Metros_Consumidos_en_este_rollo
  ELSE r.Metros_Consumidos_para_esta_pieza

\* C3 as stated: every returned record, the large-piece summary included,
\* consumes at most the roll length.
C3_TodosCaben ==
  Terminado =>
    \A i \in 1..Len(ret.detalles) :
      Consumido(ret.detalles[i]) <= largo_rollo_seleccionado

\* C3 amended: every pattern record consumes at most the roll length; the
\* large-piece summary record consumes the summed large demand, which is
\* more than one roll and at most the roll length times the physical rolls
\* the record assigns.
C3_Factibilidad ==
  Terminado =>
    \A i \in 1..Len(ret.detalles) :
      LET r == ret.detalles[i] IN
      IF EsRegistroPatron(r)
      THEN /\ Consumido(r) <= largo_rollo_seleccionado
           /\ Consumido(r) = SumSeq(r.Cortes_en_rollo)
      ELSE /\ Consumido(r) > largo_rollo_seleccionado
           /\ Consumido(r) <= r.Rollos_Fisicos_Asignados
                                * largo_rollo_seleccionado

\* a result holding the summary record and a pattern record that fills a roll
C3_Testigo ==
  /\ Terminado
  /\ \E i \in 1..Len(ret.detalles) : ~EsRegistroPatron(ret.detalles[i])
  /\ \E i \in 1..Len(ret.detalles) :
       /\ EsRegistroPatron(ret.detalles[i])
       /\ Consumido(ret.detalles[i]) = largo_rollo_seleccionado

\* net requested length of all pieces, small and large
NetoSolicitado == SumProd(solicitudes_cortes)

BalanceCero ==
  ret.num_rollos_totales * largo_rollo_seleccionado = NetoSolicitado

\* C4 as stated: for all inputs the total waste is >= 0, and it is 0 iff
\* total rolls times roll length equals the net requested length.
C4_DesperdicioSiempre ==
  Terminado =>
    /\ ret.desperdicio_total >= 0
    /\ (ret.desperdicio_total = 0) <=> BalanceCero

\* C4 amended: the total waste is >= 0 for all inputs; when the status is
\* optimal (Optimal or large-only) it is 0 iff total rolls times roll length
\* equals the net requested length.
C4_DesperdicioNoNegativo ==
  Terminado =>
    /\ ret.desperdicio_total >= 0
    /\ EstadoOptimo => ((ret.desperdicio_total = 0) <=> BalanceCero)

\* an optimal plan of small and large pieces without any waste
C4_Testigo ==
  /\ Terminado
  /\ ret.estado = "Optimal"
  /\ ret.cortes_grandes # <<>>
  /\ ret.desperdicio_total = 0
  /\ BalanceCero

\* the finished invocation and the one before it ran with numeric caps
DosCorridas ==
  /\ Terminado
  /\ anterior # <<>>
  /\ max_items_per_pattern # <<>>
  /\ anterior[1].cap # <<>>

\* C5 as stated: for any two caps k1 < k2 on the same roll length and
\* request dict, total rolls with k1 >= total rolls with k2.
C5_MonotoniaTodoCap ==
  DosCorridas =>
    /\ anterior[1].cap[1] < max_items_per_pattern[1]
         => anterior[1].num_rollos_totales >= ret.num_rollos_totales
    /\ max_items_per_pattern[1] < anterior[1].cap[1]
         => ret.num_rollos_totales >= anterior[1].num_rollos_totales

\* C5 amended: for any two caps 1 <= k1 < k2 on the same roll length and
\* request dict, total rolls with k1 >= total rolls with k2.
C5_MonotoniaCapPositivo ==
  DosCorridas =>
    /\ (1 <= anterior[1].cap[1]
        /\ anterior[1].cap[1] < max_items_per_pattern[1])
         => anterior[1].num_rollos_totales >= ret.num_rollos_totales
    /\ (1 <= max_items_per_pattern[1]
        /\ max_items_per_pattern[1] < anterior[1].cap[1])
         => ret.num_rollos_totales >= anterior[1].num_rollos_totales

\* the same request solved with cap 1 and then with a larger cap that saves
\* rolls
C5_Testigo ==
  /\ DosCorridas
  /\ anterior[1].cap[1] = 1
  /\ max_items_per_pattern[1] > 1
  /\ anterior[1].num_rollos_totales > ret.num_rollos_totales

\* ====================================================== power supplies
\* the cutting function is not running
CortesEnReposo ==
  /\ largo_rollo_seleccionado = 0
  /\ max_items_per_pattern = <<>>
  /\ cortes_para_optimizar = <<>>
  /\ cortes_grandes_externos = <<>>
  /\ grandes = [total_rollos |-> 0, total_desperdicio |-> 0, detalles |-> <<>>]
  /\ patrones_unicos = <<>>
  /\ solver = SolverInicial
  /\ retorno = <<>>
  /\ anterior = <<>>

\* mutants: the list is taken to be sorted ascending
MinLista_Primero(l) == l[1]

MaxLista_Ultimo(l) == l[Len(l)]

\* min(...) and max(...) of a non-empty list
MinLista(l) == CHOOSE v \in {l[i] : i \in 1..Len(l)} :
                 \A i \in 1..Len(l) : v <= l[i]

MaxLista(l) == CHOOSE v \in {l[i] : i \in 1..Len(l)} :
                 \A i \in 1..Len(l) : v >= l[i]

\* largo * watts_por_metro, in cW
ConsumoReal(largo, watts) == largo * watts * 100

\* consumo * factor_seguridad, the factor being pct / 100 + 1
ConsumoAjustado(consumo, pct) == (consumo * (100 + pct)) \div 100

\* --------------------------------- obtener_fuente_adecuada_individual
\* returns <<rating or None, warning>>
obtener_fuente_adecuada_individual(consumo_requerido_watts, fuentes, pct) ==
  LET consumo_ajustado == ConsumoAjustado(consumo_requerido_watts, pct)
      fuentes_suficientes ==
        SelectSeq(fuentes, LAMBDA f : f >= consumo_ajustado)
  IN IF fuentes_suficientes = <<>>
     THEN IF fuentes # <<>>
          THEN <<<<MaxLista(fuentes)>>, "Excede todas las fuentes disponibles">>
          ELSE <<<<>>, "No hay fuentes disponibles para asignar.">>
     ELSE <<<<MinLista(fuentes_suficientes)>>, "">>

\* one call of the function for the next length of the request dict; the
\* call and its result are kept in retorno_fuentes
ObtenerFuenteIndividual ==
  /\ pc = "individual"
  /\ indice < Len(solicitudes_cortes)
  /\ LET largo_corte == solicitudes_cortes[indice + 1][1]
         consumo_corte == ConsumoReal(largo_corte, watts_por_metro_tira)
         r == obtener_fuente_adecuada_individual(
                consumo_corte, fuentes_disponibles_watts, factor_seguridad)
     IN retorno_fuentes' =
          Append(retorno_fuentes,
                 [consumo |-> consumo_corte, fuente |-> r[1],
                  advertencia |-> r[2]])
  /\ indice' = indice + 1
  /\ pc' = IF indice + 1 = Len(solicitudes_cortes) THEN "finF" ELSE pc
  /\ UNCHANGED <<solicitudes_cortes, watts_por_metro_tira,
                 fuentes_disponibles_watts, factor_seguridad, modo,
                 piezas_consumo_ajustado, cantidad_corte, fuentes_en_uso,
                 total_fuentes_requeridas_dict,
                 detalles_fuentes_asignadas_list>>
  /\ UNCHANGED <<largo_rollo_seleccionado, max_items_per_pattern,
                 cortes_para_optimizar, cortes_grandes_externos, grandes,
                 patrones_unicos, solver, retorno, anterior>>
  /\ UNCHANGED varsUI

\* ---------------------------- optimizar_fuentes_para_cortes_agrupados
\* lines 59-68: every physical piece, in dict order
RECURSIVE ExpandirPiezas(_, _, _)
ExpandirPiezas(sol, watts, pct) ==
  IF sol = <<>> THEN <<>>
  ELSE LET largo_corte == sol[Len(sol)][1]
           cantidad == sol[Len(sol)][2]
           consumo_individual_real == ConsumoReal(largo_corte, watts)
           pieza == [largo_original |-> largo_corte,
                     consumo_real |-> consumo_individual_real,
                     consumo_ajustado |->
                       ConsumoAjustado(consumo_individual_real, pct)]
       IN ExpandirPiezas(SubSeq(sol, 1, Len(sol) - 1), watts, pct)
          \o [k \in 1..cantidad |-> pieza]

\* insertion of a piece into a list in non-increasing order of adjusted
\* consumption, after the pieces of equal consumption (stable)
RECURSIVE InsertarDesc(_, _)
InsertarDesc(s, p) ==
  IF s = <<>> THEN <<p>>
  ELSE IF p.consumo_ajustado > Head(s).consumo_ajustado THEN <<p>> \o s
       ELSE <<Head(s)>> \o InsertarDesc(Tail(s), p)

\* line 71: list.sort(key=consumo_ajustado, reverse=True)
RECURSIVE OrdenarPiezas(_)
OrdenarPiezas(s) ==
  IF s = <<>> THEN <<>>
  ELSE InsertarDesc(OrdenarPiezas(SubSeq(s, 1, Len(s) - 1)), s[Len(s)])

\* lines 59-79
PrepararPiezas ==
  /\ pc = "piezas"
  /\ piezas_consumo_ajustado' =
       OrdenarPiezas(ExpandirPiezas(solicitudes_cortes, watts_por_metro_tira,
                                    factor_seguridad))
  /\ cantidad_corte' =
       IF solicitudes_cortes = <<>> THEN 0
       ELSE solicitudes_cortes[Len(solicitudes_cortes)][2]
  /\ fuentes_en_uso' = <<>>
  /\ total_fuentes_requeridas_dict' = <<>>
  /\ detalles_fuentes_asignadas_list' = <<>>
  /\ indice' = 0
  /\ pc' = "asignar"
  /\ UNCHANGED <<solicitudes_cortes, watts_por_metro_tira,
                 fuentes_disponibles_watts, factor_seguridad, modo,
                 retorno_fuentes>>
  /\ UNCHANGED <<largo_rollo_seleccionado, max_items_per_pattern,
                 cortes_para_optimizar, cortes_grandes_externos, grandes,
                 patrones_unicos, solver, retorno, anterior>>
  /\ UNCHANGED varsUI

\* mutant: any instance with capacity left takes the piece
PrimeraConLugar_SinComparar(en_uso, consumo_pieza) ==
  LET caben == { i \in 1..Len(en_uso) : en_uso[i].restante > 0 }
  IN IF caben = {} THEN 0 ELSE CHOOSE i \in caben : \A j \in caben : i <= j

\* mutant: best fit, the instance with the least room that still fits
PrimeraConLugar_MejorAjuste(en_uso, consumo_pieza) ==
  LET caben == { i \in 1..Len(en_uso) : en_uso[i].restante >= consumo_pieza }
  IN IF caben = {} THEN 0
     ELSE CHOOSE i \in caben :
            \A j \in caben : en_uso[i].restante <= en_uso[j].restante

\* lines 89-94: index of the first opened instance with room, or 0
PrimeraConLugar(en_uso, consumo_pieza) ==
  LET caben == { i \in 1..Len(en_uso) : en_uso[i].restante >= consumo_pieza }
  IN IF caben = {} THEN 0 ELSE CHOOSE i \in caben : \A j \in caben : i <= j

\* mutant: the ratings are tried from the largest down
FuenteNueva_Mayor(fuentes, consumo_pieza) ==
  LET ordenadas == Reverse(Sorted(fuentes))
      bastan == { i \in 1..Len(ordenadas) : ordenadas[i] >= consumo_pieza }
  IN IF bastan = {} THEN <<>>
     ELSE <<ordenadas[CHOOSE i \in bastan : \A j \in bastan : i <= j]>>

\* lines 100-109: the rating of a new instance: first sufficient rating of
\* sorted(fuentes_disponibles_watts), or <<>>
FuenteNueva(fuentes, consumo_pieza) ==
  LET ordenadas == Sorted(fuentes)
      bastan == { i \in 1..Len(ordenadas) : ordenadas[i] >= consumo_pieza }
  IN IF bastan = {} THEN <<>>
     ELSE <<ordenadas[CHOOSE i \in bastan : \A j \in bastan : i <= j]>>

\* mutant: a piece that exceeds every rating gets no instance
FuenteMaxima_Rechaza(fuentes) == <<>>

\* lines 113-114: the largest rating when it exists and is truthy (not 0),
\* else <<>>
FuenteMaxima(fuentes) ==
  IF fuentes # <<>> /\ MaxLista(fuentes) # 0
  THEN <<MaxLista(fuentes)>> ELSE <<>>

\* mutant: the count of a rating is set to 1 instead of incremented
Incrementar_Fijo(d, k) ==
  IF \E i \in 1..Len(d) : d[i][1] = k
  THEN d
  ELSE Append(d, <<k, 1>>)

\* total_fuentes_requeridas_dict[k] += 1 on a defaultdict(int)
Incrementar(d, k) ==
  IF \E i \in 1..Len(d) : d[i][1] = k
  THEN [i \in 1..Len(d) |-> IF d[i][1] = k THEN <<k, d[i][2] + 1>> ELSE d[i]]
  ELSE Append(d, <<k, 1>>)

CorteAsignado(pieza) ==
  [largo |-> pieza.largo_original, consumo_real |-> pieza.consumo_real]

\* lines 102-106 and 116-120: a new instance holding one piece
Abrir(tipo, pieza) ==
  [tipo |-> tipo, restante |-> tipo - pieza.consumo_ajustado,
   cortes_asignados |-> <<CorteAsignado(pieza)>>]

\* lines 82-139: one iteration of the assignment loop
AsignarPieza ==
  /\ pc = "asignar"
  /\ indice < Len(piezas_consumo_ajustado)
  /\ LET pieza == piezas_consumo_ajustado[indice + 1]
         consumo_pieza == pieza.consumo_ajustado
         k == PrimeraConLugar(fuentes_en_uso, consumo_pieza)
         nueva == FuenteNueva(fuentes_disponibles_watts, consumo_pieza)
         maxima == FuenteMaxima(fuentes_disponibles_watts)
     IN IF k # 0
        THEN /\ fuentes_en_uso' =
                  [fuentes_en_uso EXCEPT
                     ![k].restante = @ - consumo_pieza,
                     ![k].cortes_asignados = Append(@, CorteAsignado(pieza))]
             /\ UNCHANGED <<total_fuentes_requeridas_dict,
                            detalles_fuentes_asignadas_list>>
        ELSE IF nueva # <<>>
        THEN /\ fuentes_en_uso' = Append(fuentes_en_uso, Abrir(nueva[1], pieza))
             /\ total_fuentes_requeridas_dict' =
                  Incrementar(total_fuentes_requeridas_dict, nueva[1])
             /\ UNCHANGED detalles_fuentes_asignadas_list
        ELSE IF maxima # <<>>
        THEN LET max_fuente_disponible == maxima[1]
             IN /\ fuentes_en_uso' =
                     Append(fuentes_en_uso, Abrir(max_fuente_disponible, pieza))
                /\ total_fuentes_requeridas_dict' =
                     Incrementar(total_fuentes_requeridas_dict,
                                 max_fuente_disponible)
                /\ detalles_fuentes_asignadas_list' =
                     Append(detalles_fuentes_asignadas_list,
                            [Largo_Corte |-> pieza.largo_original,
                             Consumo_Ajustado |-> consumo_pieza,
                             Fuente_Asignada |-> <<max_fuente_disponible>>,
                             Tipo_Asignacion |-> "Excede todas las fuentes"])
        ELSE /\ detalles_fuentes_asignadas_list' =
                  Append(detalles_fuentes_asignadas_list,
                         [Largo_Corte |-> pieza.largo_original,
                          Cantidad_de_Cortes |-> cantidad_corte,
                          Consumo_Ajustado |-> consumo_pieza,
                          Fuente_Asignada |-> <<>>,
                          Tipo_Asignacion |-> "No Asignada"])
             /\ UNCHANGED <<fuentes_en_uso, total_fuentes_requeridas_dict>>
  /\ indice' = indice + 1
  /\ UNCHANGED <<pc, solicitudes_cortes, watts_por_metro_tira,
                 fuentes_disponibles_watts, factor_seguridad, modo,
                 piezas_consumo_ajustado, cantidad_corte, retorno_fuentes>>
  /\ UNCHANGED <<largo_rollo_seleccionado, max_items_per_pattern,
                 cortes_para_optimizar, cortes_grandes_externos, grandes,
                 patrones_unicos, solver, retorno, anterior>>
  /\ UNCHANGED varsUI

\* lines 144-156: one output record per opened instance; a value in cW is
\* its own two-decimal rendering
DetallesFinales(en_uso) ==
  [i \in 1..Len(en_uso) |->
     [ID_Fuente |-> <<"F", i>>,
      Potencia_Fuente |-> en_uso[i].tipo,
      Cortes_Asignados |-> en_uso[i].cortes_asignados,
      Consumo_Total_en_Fuente |-> en_uso[i].tipo - en_uso[i].restante,
      Capacidad_Restante |-> en_uso[i].restante,
      Advertencia |-> IF en_uso[i].restante < 0
                      THEN "Consumo excede capacidad" ELSE ""]]

\* lines 141-158: format and return
Formatear ==
  /\ pc = "asignar"
  /\ indice = Len(piezas_consumo_ajustado)
  /\ retorno_fuentes' =
       <<[total_fuentes |-> total_fuentes_requeridas_dict,
          detalles |-> DetallesFinales(fuentes_en_uso)]>>
  /\ pc' = "finF"
  /\ UNCHANGED <<solicitudes_cortes, watts_por_metro_tira,
                 fuentes_disponibles_watts, factor_seguridad, modo,
                 piezas_consumo_ajustado, indice, cantidad_corte,
                 fuentes_en_uso, total_fuentes_requeridas_dict,
                 detalles_fuentes_asignadas_list>>
  /\ UNCHANGED <<largo_rollo_seleccionado, max_items_per_pattern,
                 cortes_para_optimizar, cortes_grandes_externos, grandes,
                 patrones_unicos, solver, retorno, anterior>>
  /\ UNCHANGED varsUI

InitFuentes ==
  /\ modo \in {"agrupado", "individual"}
  /\ pc = IF modo = "agrupado" THEN "piezas" ELSE "individual"
  /\ solicitudes_cortes \in
       DictsDe(LargosTira, MaxDistintosFuentes)
         \ (IF modo = "individual" THEN {<<>>} ELSE {})
  /\ watts_por_metro_tira \in WattsPorMetro
  /\ fuentes_disponibles_watts \in ListasDeFuentes
  /\ factor_seguridad \in FactoresSeguridad
  /\ piezas_consumo_ajustado = <<>>
  /\ indice = 0
  /\ cantidad_corte = 0
  /\ fuentes_en_uso = <<>>
  /\ total_fuentes_requeridas_dict = <<>>
  /\ detalles_fuentes_asignadas_list = <<>>
  /\ retorno_fuentes = <<>>
  /\ CortesEnReposo
  /\ SesionEnReposo

NextFuentes ==
  \/ ObtenerFuenteIndividual
  \/ PrepararPiezas
  \/ AsignarPieza
  \/ Formatear

SpecFuentes == InitFuentes /\ [][NextFuentes]_vars

\* ============================================== claims, power supplies
Agrupado == modo = "agrupado"
Individual == modo = "individual"
Potencias ==
  { fuentes_disponibles_watts[i] : i \in 1..Len(fuentes_disponibles_watts) }

\* adjusted consumption of an assigned piece, from what the instance stores
AjustadoDe(c) == ConsumoAjustado(c.consumo_real, factor_seguridad)

AjustadosDe(cortes) == [j \in 1..Len(cortes) |-> AjustadoDe(cortes[j])]

\* pieces as demands in the order they are placed
Demandas ==
  [j \in 1..Len(piezas_consumo_ajustado) |->
     piezas_consumo_ajustado[j].consumo_ajustado]

\* demands of 90, 40 and 35 W on ratings [100, 60], function returned
EscenarioC2 ==
  /\ Agrupado
  /\ pc = "finF"
  /\ fuentes_disponibles_watts = <<10000, 6000>>
  /\ Demandas = <<9000, 4000, 3500>>

\* C2 as stated: demands 90, 40, 35 W with ratings [100, 60] open exactly
\* 2 instances: one of 100 W holding 90 and one of 100 W holding 40 and 35.
C2_DosFuentes ==
  EscenarioC2 =>
    LET d == retorno_fuentes[1].detalles IN
    /\ Len(d) = 2
    /\ d[1].Potencia_Fuente = 10000
    /\ AjustadosDe(d[1].Cortes_Asignados) = <<9000>>
    /\ d[2].Potencia_Fuente = 10000
    /\ AjustadosDe(d[2].Cortes_Asignados) = <<4000, 3500>>

\* C2 amended: demands 90, 40, 35 W with ratings [100, 60] open exactly 3
\* instances: one of 100 W holding 90, one of 60 W holding 40 and one of
\* 60 W holding 35 (a new instance takes the smallest rating that fits the
\* piece that opens it; 35 does not fit the 20 W left beside 40).
C2_TresFuentes ==
  EscenarioC2 =>
    LET d == retorno_fuentes[1].detalles IN
    /\ Len(d) = 3
    /\ d[1].Potencia_Fuente = 10000
    /\ AjustadosDe(d[1].Cortes_Asignados) = <<9000>>
    /\ d[2].Potencia_Fuente = 6000
    /\ AjustadosDe(d[2].Cortes_Asignados) = <<4000>>
    /\ d[3].Potencia_Fuente = 6000
    /\ AjustadosDe(d[3].Cortes_Asignados) = <<3500>>
    /\ retorno_fuentes[1].total_fuentes = <<<<10000, 1>>, <<6000, 2>>>>

\* the example has been run to its return
C2_Testigo ==
  /\ EscenarioC2
  /\ Len(retorno_fuentes[1].detalles) = 3

\* the instance was opened by a piece that exceeds every rating
Excedida(f) ==
  /\ Potencias # {}
  /\ \A r \in Potencias : AjustadoDe(f.cortes_asignados[1]) > r

ConsumoAcumulado(f) == SumSeq(AjustadosDe(f.cortes_asignados))

\* C6: after every placement step every opened instance holds cumulative
\* adjusted consumption <= its rating (residual >= 0), unless it was opened
\* at the largest rating for one piece exceeding every rating; exactly those
\* instances carry the overflow warning in the output, and they never hold a
\* second piece.
C6_Capacidad ==
  Agrupado =>
    \A i \in 1..Len(fuentes_en_uso) :
      LET f == fuentes_en_uso[i] IN
      /\ ~Excedida(f) => (ConsumoAcumulado(f) <= f.tipo /\ f.restante >= 0)
      /\ Excedida(f) => /\ f.tipo \in Potencias
                        /\ \A r \in Potencias : f.tipo >= r
                        /\ Len(f.cortes_asignados) = 1
                        /\ f.restante < 0
      /\ retorno_fuentes # <<>> =>
           (retorno_fuentes[1].detalles[i].Advertencia # "" <=> Excedida(f))

\* returned: an overflowed instance followed by an instance that took a
\* second piece
C6_Testigo ==
  /\ Agrupado
  /\ retorno_fuentes # <<>>
  /\ \E i, j \in 1..Len(fuentes_en_uso) :
       /\ i < j
       /\ Excedida(fuentes_en_uso[i])
       /\ retorno_fuentes[1].detalles[i].Advertencia # ""
       /\ Len(fuentes_en_uso[j].cortes_asignados) = 2
       /\ retorno_fuentes[1].detalles[j].Advertencia = ""

\* pieces of one length over all opened instances
PiezasColocadas(largo) ==
  LET acc[i \in 0..Len(fuentes_en_uso)] ==
        IF i = 0 THEN 0
        ELSE acc[i - 1]
             + Cardinality({ j \in 1..Len(fuentes_en_uso[i].cortes_asignados) :
                   fuentes_en_uso[i].cortes_asignados[j].largo = largo })
  IN acc[Len(fuentes_en_uso)]

ColocadasEnTotal ==
  SumSeq([i \in 1..Len(fuentes_en_uso) |->
            Len(fuentes_en_uso[i].cortes_asignados)])

\* C7: with a non-empty rating list no piece is refused: after every
\* placement step each piece handled so far sits in an opened instance, and
\* when the grouped assignment returns every physical piece has been handled
\* and sits in exactly one instance (per length as many as requested, in all
\* the sum of the quantities), pieces exceeding every rating included.
C7_NuncaRechaza ==
  (Agrupado /\ pc \in {"asignar", "finF"}
     /\ fuentes_disponibles_watts # <<>>) =>
    /\ ColocadasEnTotal = indice
    /\ pc = "finF" =>
         /\ indice = SumCant(solicitudes_cortes)
         /\ \A largo \in LargosPedidos :
              PiezasColocadas(largo) = Get(solicitudes_cortes, largo)
         /\ Len(retorno_fuentes[1].detalles) = Len(fuentes_en_uso)

\* returned: a piece exceeding every rating opened the first instance and a
\* later piece opened another one
C7_Testigo ==
  /\ Agrupado
  /\ pc = "finF"
  /\ Len(fuentes_en_uso) >= 2
  /\ Excedida(fuentes_en_uso[1])
  /\ ~Excedida(fuentes_en_uso[Len(fuentes_en_uso)])
  /\ SumCant(solicitudes_cortes) >= 3

\* ratings that cover the adjusted consumption of a recorded direct call
Suficientes(e) ==
  { r \in Potencias : r >= ConsumoAjustado(e.consumo, factor_seguridad) }

\* C8: when some rating is >= the adjusted consumption, the direct lookup
\* returns the least such rating and an empty warning.
C8_AjusteMinimo ==
  Individual =>
    \A i \in 1..Len(retorno_fuentes) :
      LET e == retorno_fuentes[i] IN
      Suficientes(e) # {} =>
        /\ e.fuente # <<>>
        /\ e.fuente[1] \in Suficientes(e)
        /\ \A r \in Suficientes(e) : e.fuente[1] <= r
        /\ e.advertencia = ""

\* a call that had two sufficient ratings, the larger listed first
C8_Testigo ==
  /\ Individual
  /\ fuentes_disponibles_watts = <<10000, 6000>>
  /\ \E i \in 1..Len(retorno_fuentes) :
       /\ Cardinality(Suficientes(retorno_fuentes[i])) = 2
       /\ retorno_fuentes[i].fuente = <<6000>>

\* C9: when the rating list is non-empty and the adjusted consumption
\* exceeds every rating, the direct lookup returns the largest rating with a
\* non-empty warning, never a null rating.
C9_Desborde ==
  Individual =>
    \A i \in 1..Len(retorno_fuentes) :
      LET e == retorno_fuentes[i] IN
      (Potencias # {} /\ Suficientes(e) = {}) =>
        /\ e.fuente # <<>>
        /\ e.fuente[1] \in Potencias
        /\ \A r \in Potencias : e.fuente[1] >= r
        /\ e.advertencia # ""

\* a call whose consumption exceeded both ratings, the larger listed first
C9_Testigo ==
  /\ Individual
  /\ fuentes_disponibles_watts = <<10000, 6000>>
  /\ \E i \in 1..Len(retorno_fuentes) :
       /\ Suficientes(retorno_fuentes[i]) = {}
       /\ retorno_fuentes[i].fuente = <<10000>>

SinFuentes == "No hay fuentes disponibles para asignar."

\* C10: with an empty rating list both modes report an explicit unassigned
\* marker to the caller: the direct lookup returns a null rating with the
\* no-sources message, and the records returned by the grouped assignment
\* contain a not-assigned entry for the pieces that could not be assigned.
C10_MarcadorExplicito ==
  fuentes_disponibles_watts = <<>> =>
    /\ Individual =>
         \A i \in 1..Len(retorno_fuentes) :
           /\ retorno_fuentes[i].fuente = <<>>
           /\ retorno_fuentes[i].advertencia = SinFuentes
    /\ (Agrupado /\ pc = "finF" /\ solicitudes_cortes # <<>>) =>
         \E i \in 1..Len(retorno_fuentes[1].detalles) :
           retorno_fuentes[1].detalles[i].Advertencia = SinFuentes

\* ============================================ claims, cutting (second part)
\* the split and the large-piece arithmetic have run
Preprocesado == pc \in {"generar", "resolver", "procesar", "fin"}

\* requests longer than the roll, straight from the request dict
PedidosGrandes ==
  { i \in 1..Len(solicitudes_cortes) :
      solicitudes_cortes[i][1] > largo_rollo_seleccionado }

\* summed demand of the requests longer than the roll
RECURSIVE MetrosDe(_)
MetrosDe(I) ==
  IF I = {} THEN 0
  ELSE LET i == CHOOSE j \in I : TRUE
       IN solicitudes_cortes[i][1] * solicitudes_cortes[i][2]
          + MetrosDe(I \ {i})

\* C11: when some request is longer than the roll, the large-piece group
\* has total = sum of length * quantity over the oversized requests (one
\* continuous demand), rolls = the least n with n * roll >= total, waste =
\* rolls * roll - total with 0 <= waste < roll; {12: 1} on a roll of 5 gives
\* 3 rolls and waste 3.
C11_AritmeticaGrandes ==
  (Preprocesado /\ PedidosGrandes # {}) =>
    LET total == MetrosDe(PedidosGrandes)
        r == grandes.detalles[1]
    IN /\ Len(grandes.detalles) = 1
       /\ r.Metros_Consumidos_para_esta_pieza = total
       /\ grandes.total_rollos * largo_rollo_seleccionado >= total
       /\ (grandes.total_rollos - 1) * largo_rollo_seleccionado < total
       /\ r.Rollos_Fisicos_Asignados = grandes.total_rollos
       /\ grandes.total_desperdicio
            = grandes.total_rollos * largo_rollo_seleccionado - total
       /\ r.Desperdicio_en_rollo = grandes.total_desperdicio
       /\ grandes.total_desperdicio >= 0
       /\ grandes.total_desperdicio < largo_rollo_seleccionado
       /\ (largo_rollo_seleccionado = 5 /\ solicitudes_cortes = <<<<12, 1>>>>)
            => (grandes.total_rollos = 3 /\ grandes.total_desperdicio = 3)

\* two pieces of 12 on rolls of 5: 5 rolls for the 24 m, where a ceiling per
\* piece would take 6
C11_Testigo ==
  /\ Preprocesado
  /\ largo_rollo_seleccionado = 5
  /\ solicitudes_cortes = <<<<12, 2>>>>
  /\ grandes.total_rollos = 5
  /\ grandes.total_desperdicio = 1

\* rolls and waste of the large-piece group, recomputed from the requests
RollosDeGrandes ==
  LET total == MetrosDe(PedidosGrandes)
  IN CHOOSE n \in 0..total :
       /\ n * largo_rollo_seleccionado >= total
       /\ (n - 1) * largo_rollo_seleccionado < total

DesperdicioDeGrandes ==
  RollosDeGrandes * largo_rollo_seleccionado - MetrosDe(PedidosGrandes)

\* the invocation returned a failure status
Fallido ==
  /\ Terminado
  /\ ret.estado \in {EstadoSinPatrones, "Infeasible"}

\* C12 (as claimed): on the no-feasible-patterns status or on Infeasible the
\* returned total rolls and total waste are both zero, also when the request
\* map holds pieces longer than the roll.
C12_FallosEnCero ==
  Fallido => (ret.num_rollos_totales = 0 /\ ret.desperdicio_total = 0)

\* C12 (amended): on the no-feasible-patterns status or on Infeasible the
\* invocation has ended after at most one solve, the optimizer contributes
\* nothing (no pattern record), and the returned totals are those of the
\* large-piece group alone: zero exactly when no request exceeds the roll.
C12_FallosSoloGrandes ==
  Fallido =>
    /\ pc = "fin"
    /\ solver.llamadas <= 1
    /\ (ret.estado = EstadoSinPatrones) => (solver.llamadas = 0)
    /\ ret.num_rollos_totales = RollosDeGrandes
    /\ ret.desperdicio_total = DesperdicioDeGrandes
    /\ \A i \in 1..Len(ret.detalles) : ~EsRegistroPatron(ret.detalles[i])
    /\ (PedidosGrandes = {}) =>
         (ret.num_rollos_totales = 0 /\ ret.desperdicio_total = 0)

\* {2: 1, 12: 1} on rolls of 5 with cap 0: the invocation ends without
\* patterns and without a solve, and reports the 3 rolls and 3 m of waste of
\* the piece of 12
C12_Testigo ==
  /\ Fallido
  /\ ret.estado = EstadoSinPatrones
  /\ max_items_per_pattern = <<0>>
  /\ largo_rollo_seleccionado = 5
  /\ solicitudes_cortes = <<<<2, 1>>, <<12, 1>>>>
  /\ ret.num_rollos_totales = 3
  /\ ret.desperdicio_total = 3
  /\ Len(ret.detalles) = 1

\* requests that fit in the roll, straight from the request dict
PedidosChicos == DOMAIN solicitudes_cortes \ PedidosGrandes

\* waste of the optimised part: its rolls less the metres of the small requests
DesperdicioDeChicos ==
  (ret.num_rollos_totales - RollosDeGrandes) * largo_rollo_seleccionado
    - MetrosDe(PedidosChicos)

\* net requested length over all requests, large ones included
MetrosPedidos == MetrosDe(DOMAIN solicitudes_cortes)

\* C13: whenever the returned status is optimal (fully optimal or large
\* only), the returned total waste equals returned total rolls * roll length
\* - the sum of length * quantity over all requests, and the per-component
\* sum (optimizer waste + large-piece waste) is that same value.
C13_BalanceDeMaterial ==
  (Terminado /\ EstadoOptimo) =>
    /\ ret.desperdicio_total
         = ret.num_rollos_totales * largo_rollo_seleccionado - MetrosPedidos
    /\ DesperdicioDeChicos + DesperdicioDeGrandes = ret.desperdicio_total

\* {2: 2, 12: 1} on rolls of 5, fully optimal: 1 optimizer roll and 3 large
\* ones, 20 m of rolls for 16 m requested, waste 1 + 3
C13_Testigo ==
  /\ Terminado
  /\ ret.estado = "Optimal"
  /\ largo_rollo_seleccionado = 5
  /\ solicitudes_cortes = <<<<2, 2>>, <<12, 1>>>>
  /\ ret.num_rollos_totales = 4
  /\ ret.desperdicio_total = 4
  /\ DesperdicioDeChicos = 1
  /\ DesperdicioDeGrandes = 3

\* number of pattern records in the returned plan
RegistrosDePatron ==
  Cardinality({ i \in 1..Len(ret.detalles) : EsRegistroPatron(ret.detalles[i]) })

\* the invocation got as far as problema.solve()
ConSolver == Terminado /\ ret.estado \notin {EstadoSoloGrandes, EstadoSinPatrones}

\* C14: pattern records and a non-zero optimizer roll count are produced only
\* when the solver status is Optimal; for any other solver status the status
\* string is returned verbatim, no pattern record is emitted and the
\* optimizer roll count is 0; the solver is called once in an invocation that
\* reaches it and never more than once.
C14_EstadosTerminales ==
  /\ solver.llamadas <= 1
  /\ Terminado =>
       /\ pc = "fin"
       /\ ret.estado \in {EstadoSoloGrandes, EstadoSinPatrones, "Optimal"}
                           \cup EstadosSinOptimo
       /\ (RegistrosDePatron > 0 \/ ret.num_rollos_totales # RollosDeGrandes)
            => (solver.status = "Optimal" /\ ret.estado = "Optimal")
       /\ ConSolver <=> (solver.llamadas = 1)
  /\ ConSolver =>
       /\ ret.estado = solver.status
       /\ (solver.status # "Optimal") =>
            /\ RegistrosDePatron = 0
            /\ ret.num_rollos_totales = RollosDeGrandes
            /\ ret.desperdicio_total = DesperdicioDeGrandes

\* {2: 2, 12: 1} on rolls of 5: the solver came back Infeasible with the
\* variables at 1; the status is returned with the large-piece summary as
\* the only record and its 3 rolls as the only rolls
C14_Testigo ==
  /\ ConSolver
  /\ ret.estado = "Infeasible"
  /\ solver.x = <<1, 1>>
  /\ solver.llamadas = 1
  /\ largo_rollo_seleccionado = 5
  /\ solicitudes_cortes = <<<<2, 2>>, <<12, 1>>>>
  /\ Len(ret.detalles) = 1
  /\ RegistrosDePatron = 0
  /\ ret.num_rollos_totales = 3

\* this invocation and the one before had the same roll length, request
\* dict and cap
MismaEntrada ==
  /\ Terminado
  /\ anterior # <<>>
  /\ anterior[1].cap = max_items_per_pattern

MismoResultado ==
  /\ anterior[1].patrones = patrones_unicos
  /\ anterior[1].num_rollos_totales = ret.num_rollos_totales
  /\ anterior[1].desperdicio_total = ret.desperdicio_total
  /\ anterior[1].estado = ret.estado

\* every local of the function is as at the first call
LocalesNuevos ==
  /\ cortes_para_optimizar = <<>>
  /\ cortes_grandes_externos = <<>>
  /\ grandes = [total_rollos |-> 0, total_desperdicio |-> 0, detalles |-> <<>>]
  /\ patrones_unicos = <<>>
  /\ solver = SolverInicial
  /\ retorno = <<>>

\* C15: two invocations with identical (roll length, request map, cap) give
\* the identical unique patterns, total rolls and total waste, whichever
\* optimal usage vector the solver picks; no step modifies the request map
\* (or the roll length), and every invocation starts with fresh locals.
C15_Determinismo ==
  [][ /\ (MismaEntrada => MismoResultado)'
      /\ solicitudes_cortes' = solicitudes_cortes
      /\ largo_rollo_seleccionado' = largo_rollo_seleccionado
      /\ (pc' = "inicio") => LocalesNuevos' ]_vars

\* {2: 1} on rolls of 5 twice without a cap: the solver may use pattern (2)
\* or pattern (2, 2), and both runs report 1 roll and waste 3
C15_Testigo ==
  /\ MismaEntrada
  /\ max_items_per_pattern = <<>>
  /\ largo_rollo_seleccionado = 5
  /\ solicitudes_cortes = <<<<2, 1>>>>
  /\ solver.x = <<0, 1>>
  /\ Cardinality(Factibles(patrones_unicos, cortes_para_optimizar, 1)) = 2
  /\ ret.num_rollos_totales = 1
  /\ ret.desperdicio_total = 3
  /\ MismoResultado

\* the pattern generation has run, or was skipped for want of small pieces
Generado == pc \in {"resolver", "procesar", "fin"}

\* the small lengths S, straight from the request dict
LargosChicos == { solicitudes_cortes[i][1] : i \in PedidosChicos }

\* no pattern holds more pieces than the cap, or than fit in the roll
MaxPiezas ==
  IF max_items_per_pattern # <<>> THEN max_items_per_pattern[1]
  ELSE IF LargosChicos = {} THEN 0
  ELSE largo_rollo_seleccionado
         \div (CHOOSE m \in LargosChicos : \A l \in LargosChicos : m <= l)

\* a multiset is written as its ascending tuple
Ascendente(p) == \A i \in 1..(Len(p) - 1) : p[i] <= p[i + 1]

\* all non-empty multisets over S with sum <= R and size <= the cap
PatronesEsperados ==
  { p \in UNION { [1..n -> LargosChicos] : n \in 1..MaxPiezas } :
      Ascendente(p) /\ SumSeq(p) <= largo_rollo_seleccionado }

\* C16: patrones_unicos is exactly the set of all non-empty multisets over
\* the small lengths S whose sum is <= R and whose size is <= k when the cap
\* k is set; each appears exactly once, as an ascending tuple, and no pattern
\* with sum > R or size > k is produced.
C16_PatronesExactos ==
  Generado =>
    /\ { patrones_unicos[i] : i \in 1..Len(patrones_unicos) }
         = PatronesEsperados
    /\ Len(patrones_unicos) = Cardinality(PatronesEsperados)
    /\ \A i \in 1..Len(patrones_unicos) :
         /\ patrones_unicos[i] # <<>>
         /\ Ascendente(patrones_unicos[i])
         /\ SumSeq(patrones_unicos[i]) <= largo_rollo_seleccionado
         /\ (max_items_per_pattern # <<>>) =>
              (Len(patrones_unicos[i]) <= max_items_per_pattern[1])

\* lengths 2 and 5 on rolls of 10 with a cap of 2: the five patterns (2),
\* (5), (2, 2), (2, 5), (5, 5); (2, 2, 2) fits the roll but not the cap
C16_Testigo ==
  /\ pc = "resolver"
  /\ largo_rollo_seleccionado = 10
  /\ LargosChicos = {2, 5}
  /\ max_items_per_pattern = <<2>>
  /\ Len(patrones_unicos) = 5
  /\ \E i \in 1..5 : patrones_unicos[i] = <<2, 5>>
  /\ \E i \in 1..5 : patrones_unicos[i] = <<5, 5>>
  /\ \A i \in 1..5 : patrones_unicos[i] # <<2, 2, 2>>

\* ============================================ claims, power (second part)
\* C17: in grouped mode pieces are processed in non-increasing order of
\* adjusted consumption; each piece goes into the earliest-opened instance
\* whose residual capacity is >= its demand (first fit, not best fit); only
\* when no opened instance fits is a new instance opened, at the smallest
\* available rating >= the demand, appended after all existing ones.
C17_OrdenDeColocacion ==
  [][ (Agrupado /\ pc = "asignar" /\ indice' = indice + 1) =>
        LET d == Demandas[indice + 1]
            n == Len(fuentes_en_uso)
            caben == { i \in 1..n : fuentes_en_uso[i].restante >= d }
            bastan == { w \in Potencias : w >= d }
        IN /\ \A j \in 1..indice : Demandas[j] >= d
           /\ (caben # {}) =>
                LET k == CHOOSE i \in caben : \A j \in caben : i <= j
                IN /\ Len(fuentes_en_uso') = n
                   /\ fuentes_en_uso'[k].tipo = fuentes_en_uso[k].tipo
                   /\ fuentes_en_uso'[k].restante
                        = fuentes_en_uso[k].restante - d
                   /\ Len(fuentes_en_uso'[k].cortes_asignados)
                        = Len(fuentes_en_uso[k].cortes_asignados) + 1
                   /\ \A i \in 1..n :
                        i # k => fuentes_en_uso'[i] = fuentes_en_uso[i]
           /\ (caben = {} /\ bastan # {}) =>
                /\ Len(fuentes_en_uso') = n + 1
                /\ \A i \in 1..n : fuentes_en_uso'[i] = fuentes_en_uso[i]
                /\ fuentes_en_uso'[n + 1].tipo
                     = (CHOOSE w \in bastan : \A v \in bastan : w <= v)
                /\ fuentes_en_uso'[n + 1].restante
                     = fuentes_en_uso'[n + 1].tipo - d
                /\ Len(fuentes_en_uso'[n + 1].cortes_asignados) = 1
           /\ (Len(fuentes_en_uso') = n) => (caben # {} \/ Potencias = {})
    ]_vars

\* demands of 144, 72 and 48 W on ratings [120, 200]: the 200 W instance
\* opens first and is left with 56 W, the 120 W one opens second and is left
\* with 48 W; the piece of 48 W fits both and goes to the first, not to the
\* tighter second
C17_Testigo ==
  /\ Agrupado
  /\ pc = "finF"
  /\ fuentes_disponibles_watts = <<12000, 20000>>
  /\ Demandas = <<14400, 7200, 4800>>
  /\ Len(fuentes_en_uso) = 2
  /\ fuentes_en_uso[1].tipo = 20000
  /\ AjustadosDe(fuentes_en_uso[1].cortes_asignados) = <<14400, 4800>>
  /\ fuentes_en_uso[1].restante = 800
  /\ fuentes_en_uso[2].tipo = 12000
  /\ fuentes_en_uso[2].restante = 4800

\* ============================================ claims, cutting (third part)
\* the cap admits patterns of one piece
CapValido == max_items_per_pattern = <<>> \/ max_items_per_pattern[1] >= 1

\* C18: when at least one request is <= roll length and the cap is unset or
\* >= 1, the pattern set holds the one-item pattern (L) for every small
\* length L, so the status is neither no-feasible-patterns nor Infeasible;
\* when the cap is below 1 the generated set is empty, the result is the
\* no-feasible-patterns status and the solver is not invoked.
C18_SinInfactibilidad ==
  (Generado /\ LargosChicos # {}) =>
    /\ CapValido =>
         /\ \A l \in LargosChicos :
              \E i \in 1..Len(patrones_unicos) : patrones_unicos[i] = <<l>>
         /\ solver.status # "Infeasible"
         /\ Terminado => ret.estado = "Optimal"
    /\ ~CapValido =>
         /\ patrones_unicos = <<>>
         /\ pc = "fin"
         /\ ret.estado = EstadoSinPatrones
         /\ solver = SolverInicial

\* {2: 1, 5: 1} on rolls of 5: the run before had cap 0 and ended without
\* patterns; this one has cap 1, its patterns are (2) and (5), and it is
\* Optimal with 2 rolls
C18_Testigo ==
  /\ Terminado
  /\ largo_rollo_seleccionado = 5
  /\ LargosChicos = {2, 5}
  /\ SumCant(solicitudes_cortes) = 2
  /\ max_items_per_pattern = <<1>>
  /\ Len(patrones_unicos) = 2
  /\ ret.estado = "Optimal"
  /\ ret.num_rollos_totales = 2
  /\ anterior # <<>>
  /\ anterior[1].cap = <<0>>
  /\ anterior[1].estado = EstadoSinPatrones
  /\ anterior[1].patrones = <<>>

\* the pattern records of the returned plan, in order
RegistrosOptimizador ==
  SubSeq(ret.detalles, Len(grandes.detalles) + 1, Len(ret.detalles))

\* records emitted for one pattern
RegistrosDe(patron) ==
  Cardinality({ k \in 1..Len(RegistrosOptimizador) :
                  RegistrosOptimizador[k].Cortes_en_rollo = patron })

\* C19: on an Optimal solve every pattern with usage u > 0 has exactly u
\* records, each with waste = roll length - sum(pattern) and consumed =
\* sum(pattern); the records carry the identifiers Opt-Rollo-1 .. Opt-Rollo-N
\* in order, N being the objective value (the optimizer roll count); a
\* pattern with usage 0 has no record.
C19_Materializacion ==
  (Terminado /\ ret.estado = "Optimal") =>
    LET regs == RegistrosOptimizador
        N == SumSeq(solver.x)
    IN /\ \A i \in 1..Len(patrones_unicos) :
            RegistrosDe(patrones_unicos[i]) = solver.x[i]
       /\ Len(regs) = N
       /\ N = ret.num_rollos_totales - RollosDeGrandes
       /\ RegistrosDePatron = N
       /\ \A k \in 1..Len(regs) :
            /\ regs[k].Rollo_ID = <<"Opt-Rollo", k>>
            /\ regs[k].Tipo_Rollo = largo_rollo_seleccionado
            /\ regs[k].Desperdicio_en_rollo
                 = largo_rollo_seleccionado - SumSeq(regs[k].Cortes_en_rollo)
            /\ regs[k].Metros_Consumidos_en_este_rollo
                 = SumSeq(regs[k].Cortes_en_rollo)
            /\ \E i \in 1..Len(patrones_unicos) :
                 /\ patrones_unicos[i] = regs[k].Cortes_en_rollo
                 /\ solver.x[i] > 0

\* {5: 2, 2: 1} on rolls of 5, no cap: pattern (5) is used twice, one of (2)
\* and (2, 2) once and the other not at all; three records numbered 1 to 3
C19_Testigo ==
  /\ Terminado
  /\ ret.estado = "Optimal"
  /\ largo_rollo_seleccionado = 5
  /\ LargosChicos = {2, 5}
  /\ PedidosGrandes = {}
  /\ Len(solver.x) = 3
  /\ \E i \in 1..3 : solver.x[i] = 2 /\ patrones_unicos[i] = <<5>>
  /\ \E i \in 1..3 : solver.x[i] = 0
  /\ Len(RegistrosOptimizador) = 3
  /\ RegistrosOptimizador[3].Rollo_ID = <<"Opt-Rollo", 3>>

\* C20: every request goes to exactly one path: length > roll length to the
\* large-piece list, returned as (length, quantity) descriptors and never
\* used in a pattern; length <= roll length (equality included) to
\* optimisation; when no request exceeds the roll length the large-piece
\* list is empty, no summary record is emitted and the large-piece rolls and
\* waste are 0.
C20_Particion ==
  Preprocesado =>
    /\ \A i \in DOMAIN solicitudes_cortes :
         LET largo == solicitudes_cortes[i][1]
             cantidad == solicitudes_cortes[i][2]
             enGrandes ==
               { j \in 1..Len(cortes_grandes_externos) :
                   cortes_grandes_externos[j].largo = largo }
             enChicos ==
               { j \in 1..Len(cortes_para_optimizar) :
                   cortes_para_optimizar[j][1] = largo }
         IN IF largo > largo_rollo_seleccionado
            THEN /\ Cardinality(enGrandes) = 1
                 /\ \A j \in enGrandes :
                      cortes_grandes_externos[j]
                        = [largo |-> largo, cantidad |-> cantidad]
                 /\ enChicos = {}
                 /\ \A k \in 1..Len(patrones_unicos) :
                      Count(patrones_unicos[k], largo) = 0
            ELSE /\ Cardinality(enChicos) = 1
                 /\ \A j \in enChicos : cortes_para_optimizar[j][2] = cantidad
                 /\ enGrandes = {}
    /\ Len(cortes_grandes_externos) + Len(cortes_para_optimizar)
         = Len(solicitudes_cortes)
    /\ Terminado => ret.cortes_grandes = cortes_grandes_externos
    /\ (PedidosGrandes = {}) =>
         /\ cortes_grandes_externos = <<>>
         /\ grandes = [total_rollos |-> 0, total_desperdicio |-> 0,
                       detalles |-> <<>>]
         /\ Terminado =>
              /\ ret.cortes_grandes = <<>>
              /\ \A k \in 1..Len(ret.detalles) : EsRegistroPatron(ret.detalles[k])

\* {5: 1, 12: 2} on rolls of 5 with a cap of 1: the piece of 5, as long as
\* the roll, is optimised as pattern (5); the pieces of 12 are returned as
\* one descriptor and take 5 rolls
C20_Testigo ==
  /\ Terminado
  /\ largo_rollo_seleccionado = 5
  /\ solicitudes_cortes = <<<<5, 1>>, <<12, 2>>>>
  /\ max_items_per_pattern = <<1>>
  /\ cortes_para_optimizar = <<<<5, 1>>>>
  /\ ret.cortes_grandes = <<[largo |-> 12, cantidad |-> 2]>>
  /\ patrones_unicos = <<<<5>>>>
  /\ ret.estado = "Optimal"
  /\ ret.num_rollos_totales = 6

\* C21: when no request is <= roll length (an empty request map included)
\* the function returns the optimal-large-only status without generating
\* patterns or calling the solver, and the first step never fails to return;
\* total rolls and waste are exactly those of the large-piece group, and for
\* an empty request map they are 0 with empty record and descriptor lists.
C21_SoloGrandes ==
  (PedidosChicos = {}) =>
    /\ pc \in {"inicio", "fin"}
    /\ (pc = "inicio") => ENABLED Preprocesar
    /\ patrones_unicos = <<>>
    /\ solver = SolverInicial
    /\ Terminado =>
         /\ ret.estado = "Optimal (Solo Cortes Mayores al Rollo Seleccionado)"
         /\ ret.num_rollos_totales = RollosDeGrandes
         /\ ret.desperdicio_total = DesperdicioDeGrandes
         /\ \A k \in 1..Len(ret.detalles) : ~EsRegistroPatron(ret.detalles[k])
         /\ Len(ret.cortes_grandes) = Len(solicitudes_cortes)
         /\ (solicitudes_cortes = <<>>) =>
              /\ ret.num_rollos_totales = 0
              /\ ret.desperdicio_total = 0
              /\ ret.detalles = <<>>
              /\ ret.cortes_grandes = <<>>

\* {10: 1, 12: 1} on rolls of 5: 22 m of large pieces, 5 rolls and 3 m of
\* waste, one summary record, two descriptors, no pattern and no solve
C21_Testigo ==
  /\ Terminado
  /\ largo_rollo_seleccionado = 5
  /\ solicitudes_cortes = <<<<10, 1>>, <<12, 1>>>>
  /\ ret.estado = EstadoSoloGrandes
  /\ ret.num_rollos_totales = 5
  /\ ret.desperdicio_total = 3
  /\ Len(ret.detalles) = 1
  /\ Len(ret.cortes_grandes) = 2
  /\ solver.llamadas = 0

\* ============================================ claims, power (third part)
\* opened instances of one rating
InstanciasDe(w) ==
  Cardinality({ i \in 1..Len(fuentes_en_uso) : fuentes_en_uso[i].tipo = w })

\* the per-rating counts of a dict add up to
SumaDeTotales(d) == SumSeq([i \in 1..Len(d) |-> d[i][2]])

\* C22: at every step of the grouped assignment and in the returned records,
\* for each opened instance rating - residual equals the sum of the adjusted
\* consumptions of the pieces assigned to it, and the per-rating total of the
\* dictionary equals the number of opened instances of that rating, so the
\* totals sum to the number of instance records.
C22_Contabilidad ==
  Agrupado =>
    /\ \A i \in 1..Len(fuentes_en_uso) :
         fuentes_en_uso[i].tipo - fuentes_en_uso[i].restante
           = ConsumoAcumulado(fuentes_en_uso[i])
    /\ \A j \in 1..Len(total_fuentes_requeridas_dict) :
         /\ total_fuentes_requeridas_dict[j][2]
              = InstanciasDe(total_fuentes_requeridas_dict[j][1])
         /\ \A k \in 1..Len(total_fuentes_requeridas_dict) :
              k # j => total_fuentes_requeridas_dict[k][1]
                         # total_fuentes_requeridas_dict[j][1]
    /\ \A i \in 1..Len(fuentes_en_uso) :
         \E j \in 1..Len(total_fuentes_requeridas_dict) :
           total_fuentes_requeridas_dict[j][1] = fuentes_en_uso[i].tipo
    /\ SumaDeTotales(total_fuentes_requeridas_dict) = Len(fuentes_en_uso)
    /\ (pc = "finF") =>
         LET r == retorno_fuentes[1] IN
           /\ r.total_fuentes = total_fuentes_requeridas_dict
           /\ Len(r.detalles) = SumaDeTotales(r.total_fuentes)
           /\ \A i \in 1..Len(r.detalles) :
                /\ r.detalles[i].Potencia_Fuente = fuentes_en_uso[i].tipo
                /\ r.detalles[i].Consumo_Total_en_Fuente
                     = SumSeq(AjustadosDe(r.detalles[i].Cortes_Asignados))
                /\ r.detalles[i].Potencia_Fuente
                     - r.detalles[i].Capacidad_Restante
                     = r.detalles[i].Consumo_Total_en_Fuente

\* demands of 60, 60, 40 and 35 W on the rating list [100]: two instances of
\* 100 W, the first with 60 + 40 W and nothing left, the second with
\* 60 + 35 W and 5 W left; the dictionary counts 2
C22_Testigo ==
  /\ Agrupado
  /\ pc = "finF"
  /\ fuentes_disponibles_watts = <<10000>>
  /\ Demandas = <<6000, 6000, 4000, 3500>>
  /\ total_fuentes_requeridas_dict = <<<<10000, 2>>>>
  /\ Len(retorno_fuentes[1].detalles) = 2
  /\ retorno_fuentes[1].detalles[1].Consumo_Total_en_Fuente = 10000
  /\ retorno_fuentes[1].detalles[2].Consumo_Total_en_Fuente = 9500
  /\ retorno_fuentes[1].detalles[2].Capacidad_Restante = 500

\* ======================================================= the page (app.py)
\* The callbacks and the optimize button block are taken as entry points that
\* may run in any order; which buttons the page shows is not modelled.
MaxCantidadUI == 2          \* largest quantity a length accumulates
LargosUI == {0, 7, 12}      \* largo_input tried (0: rejected by the callback)
CantidadesUI == {1, 2}      \* cantidad_input tried
\* available_sources_input after parsing: ValueError, or the list of floats
EntradasDeFuentes ==
  {[valida |-> FALSE, lista |-> <<>>],
   [valida |-> TRUE, lista |-> <<>>],
   [valida |-> TRUE, lista |-> <<10000, 6000>>]}
ModosDeAsignacion ==
  {"Una fuente por cada corte", "Optimizar fuentes para agrupar cortes"}

\* d[k] = v on a dict
Poner(d, k, v) ==
  IF \E i \in 1..Len(d) : d[i][1] = k
  THEN [i \in 1..Len(d) |-> IF d[i][1] = k THEN <<k, v>> ELSE d[i]]
  ELSE Append(d, <<k, v>>)

\* del d[k]
Quitar(d, k) == SelectSeq(d, LAMBDA e : e[1] # k)

\* lines 82-139 as one loop: the opened instances and the per-rating counts
\* after the pieces from position i on have been placed
RECURSIVE AsignarTodas(_, _, _, _, _)
AsignarTodas(piezas, i, fuentes, en_uso, total) ==
  IF i > Len(piezas) THEN [en_uso |-> en_uso, total |-> total]
  ELSE LET pieza == piezas[i]
           consumo_pieza == pieza.consumo_ajustado
           k == PrimeraConLugar(en_uso, consumo_pieza)
           nueva == FuenteNueva(fuentes, consumo_pieza)
           maxima == FuenteMaxima(fuentes)
       IN IF k # 0
          THEN AsignarTodas(piezas, i + 1, fuentes,
                 [en_uso EXCEPT
                    ![k].restante = @ - consumo_pieza,
                    ![k].cortes_asignados = Append(@, CorteAsignado(pieza))],
                 total)
          ELSE IF nueva # <<>>
          THEN AsignarTodas(piezas, i + 1, fuentes,
                 Append(en_uso, Abrir(nueva[1], pieza)),
                 Incrementar(total, nueva[1]))
          ELSE IF maxima # <<>>
          THEN AsignarTodas(piezas, i + 1, fuentes,
                 Append(en_uso, Abrir(maxima[1], pieza)),
                 Incrementar(total, maxima[1]))
          ELSE AsignarTodas(piezas, i + 1, fuentes, en_uso, total)

\* the grouped function as one call: what it returns
optimizar_fuentes_para_cortes_agrupados(sol, watts, fuentes, pct) ==
  LET piezas == OrdenarPiezas(ExpandirPiezas(sol, watts, pct))
      r == AsignarTodas(piezas, 1, fuentes, <<>>, <<>>)
  IN [total_fuentes |-> r.total, detalles |-> DetallesFinales(r.en_uso)]

\* lines 222-252: the direct mode loop over the request dict
RECURSIVE FuentesIndividuales(_, _, _, _)
FuentesIndividuales(sol, watts, fuentes, pct) ==
  IF sol = <<>> THEN [total_fuentes |-> <<>>, detalles |-> <<>>]
  ELSE LET previo == FuentesIndividuales(SubSeq(sol, 1, Len(sol) - 1),
                                         watts, fuentes, pct)
           largo_corte == sol[Len(sol)][1]
           cantidad == sol[Len(sol)][2]
           consumo_corte == ConsumoReal(largo_corte, watts)
           r == obtener_fuente_adecuada_individual(consumo_corte, fuentes, pct)
           fuente_asignada == r[1]
           advertencia_fuente == r[2]
       IN IF fuente_asignada # <<>> /\ fuente_asignada[1] # 0
          THEN [total_fuentes |->
                  Poner(previo.total_fuentes, fuente_asignada[1],
                        Get(previo.total_fuentes, fuente_asignada[1])
                          + cantidad),
                detalles |->
                  Append(previo.detalles,
                         [Largo_Corte |-> largo_corte,
                          Cantidad_de_Cortes |-> cantidad,
                          Consumo_Total_p_Corte |-> consumo_corte,
                          Consumo_Ajustado |->
                            ConsumoAjustado(consumo_corte, pct),
                          Fuente_Asignada |-> fuente_asignada,
                          Advertencia |-> advertencia_fuente])]
          ELSE [total_fuentes |-> previo.total_fuentes,
                detalles |->
                  Append(previo.detalles,
                         [Largo_Corte |-> largo_corte,
                          Cantidad_de_Cortes |-> cantidad,
                          Consumo_Total_p_Corte |-> consumo_corte,
                          Consumo_Ajustado |->
                            ConsumoAjustado(consumo_corte, pct),
                          Fuente_Asignada |-> <<>>,
                          Advertencia |->
                            IF advertencia_fuente # ""
                            THEN advertencia_fuente
                            ELSE "No se pudo asignar fuente."])]

\* the cutting and power functions are not running under the page
FuncionesEnReposo ==
  /\ UNCHANGED varsCortes
  /\ UNCHANGED varsFuentes

\* lines 162-174
add_cut_callback ==
  /\ pc = "ui"
  /\ \E largo \in LargosUI, cantidad \in CantidadesUI :
       IF largo > 0 /\ cantidad > 0
       THEN /\ Get(solicitudes_cortes_ingresadas, largo) + cantidad
                 <= MaxCantidadUI
            /\ solicitudes_cortes_ingresadas' =
                 Poner(solicitudes_cortes_ingresadas, largo,
                       Get(solicitudes_cortes_ingresadas, largo) + cantidad)
            /\ mensaje' = "success"
       ELSE /\ solicitudes_cortes_ingresadas' = solicitudes_cortes_ingresadas
            /\ mensaje' = "error"
  /\ UNCHANGED <<cut_optimization_results, source_calculation_results,
                 optimizado_con, calculado_con>>
  /\ FuncionesEnReposo

\* lines 176-184
clear_all_cuts_callback ==
  /\ pc = "ui"
  /\ solicitudes_cortes_ingresadas' = <<>>
  /\ cut_optimization_results' = Ausente
  /\ source_calculation_results' = Ausente
  /\ mensaje' = ""
  /\ UNCHANGED <<optimizado_con, calculado_con>>
  /\ FuncionesEnReposo

\* lines 187-194
delete_cut_callback ==
  /\ pc = "ui"
  /\ \E largo_to_delete \in LargosUI :
       solicitudes_cortes_ingresadas' =
         Quitar(solicitudes_cortes_ingresadas, largo_to_delete)
  /\ cut_optimization_results' = Ausente
  /\ source_calculation_results' = Ausente
  /\ mensaje' = ""
  /\ UNCHANGED <<optimizado_con, calculado_con>>
  /\ FuncionesEnReposo

\* lines 197-273
calculate_sources_callback ==
  /\ pc = "ui"
  /\ \E entrada \in EntradasDeFuentes, watts \in WattsPorMetro,
        pct \in FactoresSeguridad, modo_asignacion_fuentes \in ModosDeAsignacion :
       IF solicitudes_cortes_ingresadas = <<>>
       THEN /\ mensaje' = "warning"
            /\ source_calculation_results' = Nulo
            /\ UNCHANGED calculado_con
       ELSE IF ~entrada.valida
       THEN /\ mensaje' = "error"
            /\ source_calculation_results' = Nulo
            /\ UNCHANGED calculado_con
       ELSE IF entrada.lista = <<>>
       THEN /\ mensaje' = "warning"
            /\ source_calculation_results' = Nulo
            /\ UNCHANGED calculado_con
       ELSE LET fuentes == Sorted(entrada.lista)
                r == IF modo_asignacion_fuentes = "Una fuente por cada corte"
                     THEN FuentesIndividuales(solicitudes_cortes_ingresadas,
                                              watts, fuentes, pct)
                     ELSE optimizar_fuentes_para_cortes_agrupados(
                            solicitudes_cortes_ingresadas, watts, fuentes, pct)
            IN /\ source_calculation_results' =
                    Guardado([mode |->
                                IF modo_asignacion_fuentes
                                     = "Una fuente por cada corte"
                                THEN "individual" ELSE "grouped",
                              total_fuentes |-> r.total_fuentes,
                              detalles |-> r.detalles])
               /\ calculado_con' = solicitudes_cortes_ingresadas
               /\ mensaje' = ""
  /\ UNCHANGED <<solicitudes_cortes_ingresadas, cut_optimization_results,
                 optimizado_con>>
  /\ FuncionesEnReposo

\* lines 509-531: the optimize button block. The name it calls,
\* optimizador_cortes_para_un_largo_rollo, is defined nowhere (app.py does
\* not import optimizador_logic, whose function is named
\* optimizar_cortes_para_un_largo_rollo), so evaluating it raises NameError
\* and lines 522-531 are not reached.
OptimizarCortes ==
  /\ pc = "ui"
  /\ IF solicitudes_cortes_ingresadas = <<>>
     THEN mensaje' = "warning"
     ELSE mensaje' = "NameError"
  /\ UNCHANGED <<solicitudes_cortes_ingresadas, cut_optimization_results,
                 source_calculation_results, optimizado_con, calculado_con>>
  /\ FuncionesEnReposo

InitUI ==
  /\ pc = "ui"
  /\ solicitudes_cortes = <<>>
  /\ CortesEnReposo
  /\ FuentesEnReposo
  /\ SesionEnReposo

NextUI ==
  \/ add_cut_callback
  \/ clear_all_cuts_callback
  \/ delete_cut_callback
  \/ calculate_sources_callback
  \/ OptimizarCortes

SpecUI == InitUI /\ [][NextUI]_vars

\* ======================================================= claims, the page
\* a stored result that is present and not None
HayPlan == cut_optimization_results.valor # <<>>
HayFuentes == source_calculation_results.valor # <<>>

\* C23 (as claimed): after any sequence of add_cut_callback,
\* delete_cut_callback, clear_all_cuts_callback, optimize and
\* calculate_sources_callback, a stored cut_optimization_results or
\* source_calculation_results that is present and not None was computed from
\* the request dict now in solicitudes_cortes_ingresadas; every action that
\* changes the request dict removes or recomputes both stored results.
C23_SinResultadosViejos ==
  [][ /\ HayPlan' => (optimizado_con' = solicitudes_cortes_ingresadas')
      /\ HayFuentes' => (calculado_con' = solicitudes_cortes_ingresadas')
      /\ (solicitudes_cortes_ingresadas' # solicitudes_cortes_ingresadas) =>
           (~HayPlan' /\ ~HayFuentes') ]_vars

\* C24 (as claimed): the optimize action with a non-empty request dict
\* invokes the plan computation, stores its results in
\* cut_optimization_results and resets source_calculation_results to None;
\* with an empty request dict it only warns and stores nothing.
C24_OptimizarLlegaAlPlan ==
  [][ OptimizarCortes =>
        IF solicitudes_cortes_ingresadas = <<>>
        THEN /\ mensaje' = "warning"
             /\ cut_optimization_results' = cut_optimization_results
             /\ source_calculation_results' = source_calculation_results
        ELSE /\ mensaje' # "NameError"
             /\ HayPlan'
             /\ optimizado_con' = solicitudes_cortes_ingresadas
             /\ source_calculation_results' = Nulo ]_vars

====
